---- MODULE Spec2Model ----
\* A model of the GC scheduler of the Kotlin/Native runtime
\* (kotlin-native/runtime/src/gc/common/cpp/GCScheduler.hpp, GCScheduler.cpp):
\* GCSchedulerConfig, GCScheduler::ThreadData, GCScheduler::GCData and the
\* GCScheduler that owns them.  Every action is one call of one member
\* function, taken as a whole.
EXTENDS Integers, FiniteSets

\* ---------------------------------------------------------------- constants
\* GCSchedulerConfig's default member initialisers (GCScheduler.hpp:21-23):
\* 100000 safepoints, 10 MiB, 200 ms.
DefaultThreshold == 100000
DefaultAllocationThresholdBytes == 10485760
DefaultCooldownThresholdNs == 200000000
\* GCSchedulerConfig's constructor under compiler::gcAggressive() (GCScheduler.cpp:30-32).
AggressiveThreshold == 1000
AggressiveAllocationThresholdBytes == 10000
AggressiveCooldownThresholdNs == 0

\* ------------------------------------------------------------------- bounds
\* A counter that stays below its threshold is followed up to this value.
MaxCount == 2
\* The small clock values followed (the clock also jumps past the default cooldown).
MaxTime == 2
\* The small value external code writes into a Config field.
SmallValue == 2

\* The ThreadData objects NewThreadData() hands out, in this order.
Threads == {1}

\* std::function<void()>: empty, or one of two distinguishable targets.
Empty == "empty"
Callbacks == {"cbA", "cbB"}

\* Values the time source returns: small ones, and ones a default cooldown later.
TimePoints == (0..MaxTime) \cup {DefaultCooldownThresholdNs + 1}
\* The time source's value when the GCScheduler is constructed.
StartTimes == {1}
\* Values external code stores into the Config fields.
ThresholdValues == {0}
AllocationThresholdValues == {SmallValue}
CooldownValues == {SmallValue}
\* Weights and sizes the instrumentation passes in.
Weights == {1, 2, AggressiveThreshold}
AllocSizes == {1, 2, AggressiveAllocationThresholdBytes, DefaultAllocationThresholdBytes}
\* Arguments of a direct call of GCData::OnSafePoint.
EvalBytes == {0, SmallValue, SmallValue + 1}
\* The interleaved specification follows two application threads and the GC thread.
ConcThreads == {1, 2}
ConcSizes == {1, DefaultAllocationThresholdBytes}
ConcWeights == {AggressiveThreshold}
ConcCallbacks == {"cbA"}
NotRead == -1

VARIABLES
    gcAggressive,                \* compiler::gcAggressive(), fixed at build time
    threshold,                   \* GCSchedulerConfig::threshold
    allocationThresholdBytes,    \* GCSchedulerConfig::allocationThresholdBytes
    cooldownThresholdNs,         \* GCSchedulerConfig::cooldownThresholdNs
    created,                     \* the ThreadData objects constructed so far
    allocatedBytes,              \* ThreadData::allocatedBytes_, per thread
    allocatedBytesThreshold,     \* ThreadData::allocatedBytesThreshold_
    safePointsCounter,           \* ThreadData::safePointsCounter_
    safePointsCounterThreshold,  \* ThreadData::safePointsCounterThreshold_
    currentTimeNs,               \* what currentTimeCallbackNs_() returns now
    timeOfLastGcNs,              \* GCData::timeOfLastGcNs_
    GCData_scheduleGC,           \* GCData::scheduleGC_
    GCScheduler_scheduleGC,      \* GCScheduler::scheduleGC_
    aborted,                     \* a RuntimeAssert failed: the process is gone
    lastCall,                    \* what the most recent call did (observation)
    sumBytes,                    \* sizes passed to OnSafePointAllocation since the thread's last reset
    sumWeight,                   \* weights counted by OnSafePointRegular since the thread's last reset
    constructedAtNs,             \* the time source's value at construction
    lastFullGCAtNs,              \* the time source's value at the last OnPerformFullGC, -1 if none
    pc,                          \* where each thread stands inside a ThreadData call
    nowNsRead,                   \* OnSafePoint's value of currentTimeCallbackNs_(), per calling thread
    lastNsRead,                  \* OnSafePoint's value of timeOfLastGcNs_, per calling thread
    callInvocations,             \* scheduleGC_() calls made by the thread's current OnSafePoint call
    gcNowNs                      \* OnPerformFullGC's value of currentTimeCallbackNs_(), not yet stored

config == <<threshold, allocationThresholdBytes, cooldownThresholdNs>>
threadData == <<allocatedBytes, allocatedBytesThreshold, safePointsCounter, safePointsCounterThreshold>>
gcData == <<timeOfLastGcNs, GCData_scheduleGC>>
ghost == <<sumBytes, sumWeight, constructedAtNs, lastFullGCAtNs>>
conc == <<pc, nowNsRead, lastNsRead, callInvocations, gcNowNs>>
vars == <<gcAggressive, config, created, threadData, currentTimeNs, gcData,
          GCScheduler_scheduleGC, aborted, lastCall, ghost, conc>>

\* The observation of a call: which member function, on which ThreadData (0: none),
\* with which argument; whether it reported to GCData::OnSafePoint and with what;
\* and which callback, if any, it invoked.
Call(op, t, arg, cb, reported, bytes, count, invoked) ==
    [op |-> op, thread |-> t, arg |-> arg, cb |-> cb, reported |-> reported,
     bytes |-> bytes, count |-> count, invoked |-> invoked]
Quiet(op, t, arg, cb) == Call(op, t, arg, cb, FALSE, 0, 0, Empty)

\* RuntimeAssert(condition, ...) of KAssert.h: a failed assertion terminates the process.
RuntimeAssertFails(condition) == ~condition

\* ------------------------------------------------------------------ Config
GCSchedulerConfig_ctor ==
    /\ threshold = IF gcAggressive THEN AggressiveThreshold ELSE DefaultThreshold
    /\ allocationThresholdBytes =
           IF gcAggressive THEN AggressiveAllocationThresholdBytes ELSE DefaultAllocationThresholdBytes
    /\ cooldownThresholdNs =
           IF gcAggressive THEN AggressiveCooldownThresholdNs ELSE DefaultCooldownThresholdNs

ConfigTypeOK ==
    /\ threshold \in Nat
    /\ allocationThresholdBytes \in Nat
    /\ cooldownThresholdNs \in Nat

\* External code stores into config().threshold (an atomic store).
SetThreshold(v) ==
    /\ ~aborted
    /\ v # threshold
    /\ threshold' = v
    /\ lastCall' = Quiet("SetThreshold", 0, 0, Empty)
    /\ UNCHANGED <<gcAggressive, allocationThresholdBytes, cooldownThresholdNs, created, threadData,
                   currentTimeNs, gcData, GCScheduler_scheduleGC, aborted, ghost>>

\* A store into config().allocationThresholdBytes that also pushes the value into
\* every thread's snapshot.
SetAllocationThresholdBytes_Eager(v) ==
    /\ ~aborted
    /\ v # allocationThresholdBytes
    /\ allocationThresholdBytes' = v
    /\ allocatedBytesThreshold' = [t \in DOMAIN allocatedBytesThreshold |-> v]
    /\ lastCall' = Quiet("SetAllocationThresholdBytes", 0, 0, Empty)
    /\ UNCHANGED <<gcAggressive, threshold, cooldownThresholdNs, created, allocatedBytes,
                   safePointsCounter, safePointsCounterThreshold,
                   currentTimeNs, gcData, GCScheduler_scheduleGC, aborted, ghost>>

\* External code stores into config().allocationThresholdBytes.
SetAllocationThresholdBytes(v) ==
    /\ ~aborted
    /\ v # allocationThresholdBytes
    /\ allocationThresholdBytes' = v
    /\ lastCall' = Quiet("SetAllocationThresholdBytes", 0, 0, Empty)
    /\ UNCHANGED <<gcAggressive, threshold, cooldownThresholdNs, created, threadData,
                   currentTimeNs, gcData, GCScheduler_scheduleGC, aborted, ghost>>

\* External code stores into config().cooldownThresholdNs.
SetCooldownThresholdNs(v) ==
    /\ ~aborted
    /\ v # cooldownThresholdNs
    /\ cooldownThresholdNs' = v
    /\ lastCall' = Quiet("SetCooldownThresholdNs", 0, 0, Empty)
    /\ UNCHANGED <<gcAggressive, threshold, allocationThresholdBytes, created, threadData,
                   currentTimeNs, gcData, GCScheduler_scheduleGC, aborted, ghost>>

\* ------------------------------------------------------------- time source
\* The monotonic time source moves on to a later value.
Tick(later) ==
    /\ ~aborted
    /\ later > currentTimeNs
    /\ currentTimeNs' = later
    /\ lastCall' = Quiet("Tick", 0, 0, Empty)
    /\ UNCHANGED <<gcAggressive, config, created, threadData, gcData, GCScheduler_scheduleGC,
                   aborted, ghost>>

\* ------------------------------------------------------------------ GCData
\* GCData's constructor with timeOfLastGcNs_ zero-initialised.
GCData_ctor_ZeroTimestamp(nowNs) ==
    /\ timeOfLastGcNs = 0
    /\ GCData_scheduleGC = Empty

\* GCData's constructor: timeOfLastGcNs_(currentTimeCallbackNs_()), scheduleGC_ empty.
GCData_ctor(nowNs) ==
    /\ timeOfLastGcNs = nowNs
    /\ GCData_scheduleGC = Empty

\* ElapsedAtLeast with the cooldown comparison made strict.
ElapsedAtLeast_Strict(nowNs, lastNs, cooldown) ==
    IF nowNs >= lastNs THEN nowNs - lastNs > cooldown ELSE TRUE

\* nowNs - lastNs >= cooldown on uint64_t.  Should nowNs be below lastNs the
\* difference wraps to 2^64 - (lastNs - nowNs), which is above every cooldown
\* followed here.
ElapsedAtLeast(nowNs, lastNs, cooldown) ==
    IF nowNs >= lastNs THEN nowNs - lastNs >= cooldown ELSE TRUE

\* ShouldScheduleGC with the byte comparison made inclusive.
ShouldScheduleGC_InclusiveBytes(bytes) ==
    \/ bytes >= allocationThresholdBytes
    \/ ElapsedAtLeast(currentTimeNs, timeOfLastGcNs, cooldownThresholdNs)

\* The condition of GCData::OnSafePoint.
ShouldScheduleGC(bytes) ==
    \/ bytes > allocationThresholdBytes
    \/ ElapsedAtLeast(currentTimeNs, timeOfLastGcNs, cooldownThresholdNs)

\* OnSafePoint that skips the request instead of asserting when no callback is bound.
OnSafePoint_SkipsWhenEmpty(bytes, count) ==
    IF ShouldScheduleGC(bytes) /\ GCData_scheduleGC # Empty
    THEN [fatal |-> FALSE, invoked |-> GCData_scheduleGC]
    ELSE [fatal |-> FALSE, invoked |-> Empty]

\* GCData::OnSafePoint(allocatedBytes, safePointsCounter): whether the assertion
\* fails, and the callback invoked (Empty: none).
OnSafePoint(bytes, count) ==
    IF ShouldScheduleGC(bytes)
    THEN IF RuntimeAssertFails(GCData_scheduleGC # Empty)
         THEN [fatal |-> TRUE, invoked |-> Empty]
         ELSE [fatal |-> FALSE, invoked |-> GCData_scheduleGC]
    ELSE [fatal |-> FALSE, invoked |-> Empty]

\* A direct call of OnSafePoint that restarts the cooldown when it requests a collection.
GCData_OnSafePoint_Restamps(bytes, count) ==
    LET r == OnSafePoint(bytes, count) IN
    /\ ~aborted
    /\ aborted' = r.fatal
    /\ timeOfLastGcNs' = IF r.invoked # Empty THEN currentTimeNs ELSE timeOfLastGcNs
    /\ lastCall' = Call("GCData::OnSafePoint", 0, 0, Empty, TRUE, bytes, count, r.invoked)
    /\ UNCHANGED <<gcAggressive, config, created, threadData, currentTimeNs, GCData_scheduleGC,
                   GCScheduler_scheduleGC, ghost>>

\* A direct call of gcData().OnSafePoint(bytes, count).
GCData_OnSafePoint(bytes, count) ==
    LET r == OnSafePoint(bytes, count) IN
    /\ ~aborted
    /\ aborted' = r.fatal
    /\ lastCall' = Call("GCData::OnSafePoint", 0, 0, Empty, TRUE, bytes, count, r.invoked)
    /\ UNCHANGED <<gcAggressive, config, created, threadData, currentTimeNs, gcData,
                   GCScheduler_scheduleGC, ghost>>

\* OnPerformFullGC that leaves timeOfLastGcNs_ alone.
OnPerformFullGC_NoStore ==
    /\ ~aborted
    /\ lastFullGCAtNs' = currentTimeNs
    /\ lastCall' = Quiet("OnPerformFullGC", 0, 0, Empty)
    /\ UNCHANGED <<gcAggressive, config, created, threadData, currentTimeNs, gcData,
                   GCScheduler_scheduleGC, aborted, sumBytes, sumWeight, constructedAtNs>>

\* GCData::OnPerformFullGC().
OnPerformFullGC ==
    /\ ~aborted
    /\ timeOfLastGcNs' = currentTimeNs
    /\ lastFullGCAtNs' = currentTimeNs
    /\ lastCall' = Quiet("OnPerformFullGC", 0, 0, Empty)
    /\ UNCHANGED <<gcAggressive, config, created, threadData, currentTimeNs, GCData_scheduleGC,
                   GCScheduler_scheduleGC, aborted, sumBytes, sumWeight, constructedAtNs>>

\* GCData::SetScheduleGC(scheduleGC), called through gcData().
GCData_SetScheduleGC(cb) ==
    /\ ~aborted
    /\ GCData_scheduleGC' = cb
    /\ lastCall' = Quiet("GCData::SetScheduleGC", 0, 0, cb)
    /\ UNCHANGED <<gcAggressive, config, created, threadData, currentTimeNs, timeOfLastGcNs,
                   GCScheduler_scheduleGC, aborted, ghost>>

\* -------------------------------------------------------------- ThreadData
\* The increments followed: those that keep the counter small, and those that take
\* it to the thread's threshold or past it.
Followed(counter, limit) == counter <= MaxCount \/ counter >= limit

\* ClearCountersAndUpdateThresholds that zeroes the counters and keeps the old thresholds.
ClearCountersAndUpdateThresholds_StaleThresholds(t) ==
    /\ allocatedBytes' = [allocatedBytes EXCEPT ![t] = 0]
    /\ safePointsCounter' = [safePointsCounter EXCEPT ![t] = 0]
    /\ UNCHANGED <<allocatedBytesThreshold, safePointsCounterThreshold>>

\* ThreadData::ClearCountersAndUpdateThresholds().
ClearCountersAndUpdateThresholds(t) ==
    /\ allocatedBytes' = [allocatedBytes EXCEPT ![t] = 0]
    /\ safePointsCounter' = [safePointsCounter EXCEPT ![t] = 0]
    /\ allocatedBytesThreshold' = [allocatedBytesThreshold EXCEPT ![t] = allocationThresholdBytes]
    /\ safePointsCounterThreshold' = [safePointsCounterThreshold EXCEPT ![t] = threshold]

\* OnSafePointSlowPath that clears the counters before it reports them.
OnSafePointSlowPath_ClearsFirst(t, bytes, count, op, arg) ==
    LET r == OnSafePoint(0, 0) IN
    /\ aborted' = r.fatal
    /\ lastCall' = Call(op, t, arg, Empty, TRUE, 0, 0, r.invoked)
    /\ ClearCountersAndUpdateThresholds(t)
    /\ sumBytes' = [sumBytes EXCEPT ![t] = 0]
    /\ sumWeight' = [sumWeight EXCEPT ![t] = 0]

\* ThreadData::OnSafePointSlowPath(), entered with the counters at bytes and count:
\* onSafePoint_ forwards them to GCData::OnSafePoint (the closure of NewThreadData);
\* if that returns, the counters are cleared.
OnSafePointSlowPath(t, bytes, count, op, arg) ==
    LET r == OnSafePoint(bytes, count) IN
    /\ aborted' = r.fatal
    /\ lastCall' = Call(op, t, arg, Empty, TRUE, bytes, count, r.invoked)
    /\ IF r.fatal
       THEN /\ allocatedBytes' = [allocatedBytes EXCEPT ![t] = bytes]
            /\ safePointsCounter' = [safePointsCounter EXCEPT ![t] = count]
            /\ UNCHANGED <<allocatedBytesThreshold, safePointsCounterThreshold>>
            /\ sumBytes' = [sumBytes EXCEPT ![t] = @ + (bytes - allocatedBytes[t])]
            /\ sumWeight' = [sumWeight EXCEPT ![t] = @ + (count - safePointsCounter[t])]
       ELSE /\ ClearCountersAndUpdateThresholds(t)
            /\ sumBytes' = [sumBytes EXCEPT ![t] = 0]
            /\ sumWeight' = [sumWeight EXCEPT ![t] = 0]

\* OnSafePointRegular that returns early while the counter is at most the threshold.
OnSafePointRegular_LateCrossing(t, weight) ==
    /\ ~aborted
    /\ t \in created
    /\ gcAggressive => Followed(safePointsCounter[t] + weight, safePointsCounterThreshold[t])
    /\ IF gcAggressive
       THEN IF safePointsCounter[t] + weight <= safePointsCounterThreshold[t]
            THEN /\ safePointsCounter' = [safePointsCounter EXCEPT ![t] = @ + weight]
                 /\ sumWeight' = [sumWeight EXCEPT ![t] = @ + weight]
                 /\ lastCall' = Quiet("OnSafePointRegular", t, weight, Empty)
                 /\ UNCHANGED <<allocatedBytes, allocatedBytesThreshold, safePointsCounterThreshold,
                                aborted, sumBytes>>
            ELSE OnSafePointSlowPath(t, allocatedBytes[t], safePointsCounter[t] + weight,
                                     "OnSafePointRegular", weight)
       ELSE /\ lastCall' = Quiet("OnSafePointRegular", t, weight, Empty)
            /\ UNCHANGED <<threadData, aborted, sumBytes, sumWeight>>
    /\ UNCHANGED <<gcAggressive, config, created, currentTimeNs, gcData, GCScheduler_scheduleGC,
                   constructedAtNs, lastFullGCAtNs>>

\* OnSafePointRegular that counts whether or not compiler::gcAggressive() holds.
OnSafePointRegular_AlwaysCounting(t, weight) ==
    /\ ~aborted
    /\ t \in created
    /\ Followed(safePointsCounter[t] + weight, safePointsCounterThreshold[t])
    /\ IF safePointsCounter[t] + weight < safePointsCounterThreshold[t]
       THEN /\ safePointsCounter' = [safePointsCounter EXCEPT ![t] = @ + weight]
            /\ sumWeight' = [sumWeight EXCEPT ![t] = @ + weight]
            /\ lastCall' = Quiet("OnSafePointRegular", t, weight, Empty)
            /\ UNCHANGED <<allocatedBytes, allocatedBytesThreshold, safePointsCounterThreshold,
                           aborted, sumBytes>>
       ELSE OnSafePointSlowPath(t, allocatedBytes[t], safePointsCounter[t] + weight,
                                "OnSafePointRegular", weight)
    /\ UNCHANGED <<gcAggressive, config, created, currentTimeNs, gcData, GCScheduler_scheduleGC,
                   constructedAtNs, lastFullGCAtNs>>

\* ThreadData::OnSafePointRegular(weight).
OnSafePointRegular(t, weight) ==
    /\ ~aborted
    /\ t \in created
    /\ gcAggressive => Followed(safePointsCounter[t] + weight, safePointsCounterThreshold[t])
    /\ IF gcAggressive
       THEN IF safePointsCounter[t] + weight < safePointsCounterThreshold[t]
            THEN /\ safePointsCounter' = [safePointsCounter EXCEPT ![t] = @ + weight]
                 /\ sumWeight' = [sumWeight EXCEPT ![t] = @ + weight]
                 /\ lastCall' = Quiet("OnSafePointRegular", t, weight, Empty)
                 /\ UNCHANGED <<allocatedBytes, allocatedBytesThreshold, safePointsCounterThreshold,
                                aborted, sumBytes>>
            ELSE OnSafePointSlowPath(t, allocatedBytes[t], safePointsCounter[t] + weight,
                                     "OnSafePointRegular", weight)
       ELSE /\ lastCall' = Quiet("OnSafePointRegular", t, weight, Empty)
            /\ UNCHANGED <<threadData, aborted, sumBytes, sumWeight>>
    /\ UNCHANGED <<gcAggressive, config, created, currentTimeNs, gcData, GCScheduler_scheduleGC,
                   constructedAtNs, lastFullGCAtNs>>

\* OnSafePointAllocation that returns early while the counter is at most the threshold.
OnSafePointAllocation_LateCrossing(t, size) ==
    /\ ~aborted
    /\ t \in created
    /\ Followed(allocatedBytes[t] + size, allocatedBytesThreshold[t])
    /\ IF allocatedBytes[t] + size <= allocatedBytesThreshold[t]
       THEN /\ allocatedBytes' = [allocatedBytes EXCEPT ![t] = @ + size]
            /\ sumBytes' = [sumBytes EXCEPT ![t] = @ + size]
            /\ lastCall' = Quiet("OnSafePointAllocation", t, size, Empty)
            /\ UNCHANGED <<allocatedBytesThreshold, safePointsCounter, safePointsCounterThreshold,
                           aborted, sumWeight>>
       ELSE OnSafePointSlowPath(t, allocatedBytes[t] + size, safePointsCounter[t],
                                "OnSafePointAllocation", size)
    /\ UNCHANGED <<gcAggressive, config, created, currentTimeNs, gcData, GCScheduler_scheduleGC,
                   constructedAtNs, lastFullGCAtNs>>

\* ThreadData::OnSafePointAllocation(size).
OnSafePointAllocation(t, size) ==
    /\ ~aborted
    /\ t \in created
    /\ Followed(allocatedBytes[t] + size, allocatedBytesThreshold[t])
    /\ IF allocatedBytes[t] + size < allocatedBytesThreshold[t]
       THEN /\ allocatedBytes' = [allocatedBytes EXCEPT ![t] = @ + size]
            /\ sumBytes' = [sumBytes EXCEPT ![t] = @ + size]
            /\ lastCall' = Quiet("OnSafePointAllocation", t, size, Empty)
            /\ UNCHANGED <<allocatedBytesThreshold, safePointsCounter, safePointsCounterThreshold,
                           aborted, sumWeight>>
       ELSE OnSafePointSlowPath(t, allocatedBytes[t] + size, safePointsCounter[t],
                                "OnSafePointAllocation", size)
    /\ UNCHANGED <<gcAggressive, config, created, currentTimeNs, gcData, GCScheduler_scheduleGC,
                   constructedAtNs, lastFullGCAtNs>>

\* ThreadData::OnStoppedForGC().
OnStoppedForGC(t) ==
    /\ ~aborted
    /\ t \in created
    /\ ClearCountersAndUpdateThresholds(t)
    /\ sumBytes' = [sumBytes EXCEPT ![t] = 0]
    /\ sumWeight' = [sumWeight EXCEPT ![t] = 0]
    /\ lastCall' = Quiet("OnStoppedForGC", t, 0, Empty)
    /\ UNCHANGED <<gcAggressive, config, created, currentTimeNs, gcData, GCScheduler_scheduleGC,
                   aborted, constructedAtNs, lastFullGCAtNs>>

\* ------------------------------------------------------------- GCScheduler
\* GCScheduler::NewThreadData(): the next ThreadData, whose constructor runs
\* ClearCountersAndUpdateThresholds().
NewThreadData ==
    LET t == Cardinality(created) + 1 IN
    /\ ~aborted
    /\ t \in DOMAIN allocatedBytes
    /\ created' = created \cup {t}
    /\ ClearCountersAndUpdateThresholds(t)
    /\ lastCall' = Quiet("NewThreadData", t, 0, Empty)
    /\ UNCHANGED <<gcAggressive, config, currentTimeNs, gcData, GCScheduler_scheduleGC,
                   aborted, ghost>>

\* GCScheduler::SetScheduleGC without the "must not have been set" assertion.
GCScheduler_SetScheduleGC_Rebinding(cb) ==
    /\ ~aborted
    /\ lastCall' = Quiet("GCScheduler::SetScheduleGC", 0, 0, cb)
    /\ IF RuntimeAssertFails(cb # Empty)
       THEN /\ aborted' = TRUE
            /\ UNCHANGED <<GCScheduler_scheduleGC, GCData_scheduleGC>>
       ELSE /\ GCScheduler_scheduleGC' = cb
            /\ GCData_scheduleGC' = cb
            /\ UNCHANGED aborted
    /\ UNCHANGED <<gcAggressive, config, created, threadData, currentTimeNs, timeOfLastGcNs, ghost>>

\* GCScheduler::SetScheduleGC(scheduleGC).
GCScheduler_SetScheduleGC(cb) ==
    /\ ~aborted
    /\ lastCall' = Quiet("GCScheduler::SetScheduleGC", 0, 0, cb)
    /\ IF \/ RuntimeAssertFails(cb # Empty)
          \/ RuntimeAssertFails(~(GCScheduler_scheduleGC # Empty))
       THEN /\ aborted' = TRUE
            /\ UNCHANGED <<GCScheduler_scheduleGC, GCData_scheduleGC>>
       ELSE /\ GCScheduler_scheduleGC' = cb
            /\ GCData_scheduleGC' = cb
            /\ UNCHANGED aborted
    /\ UNCHANGED <<gcAggressive, config, created, threadData, currentTimeNs, timeOfLastGcNs, ghost>>

\* GCScheduler's constructor: config_ and gcData_ are constructed, scheduleGC_ is empty.
GCScheduler_ctor(nowNs) ==
    /\ GCSchedulerConfig_ctor
    /\ GCData_ctor(nowNs)
    /\ GCScheduler_scheduleGC = Empty

\* ------------------------------------------------------------ specification
\* The state after GCScheduler's constructor, with room for the threads of T.
InitOver(T) ==
    /\ gcAggressive \in BOOLEAN
    /\ currentTimeNs \in StartTimes
    /\ GCScheduler_ctor(currentTimeNs)
    /\ created = {}
    /\ allocatedBytes = [t \in T |-> 0]
    /\ allocatedBytesThreshold = [t \in T |-> 0]
    /\ safePointsCounter = [t \in T |-> 0]
    /\ safePointsCounterThreshold = [t \in T |-> 0]
    /\ aborted = FALSE
    /\ lastCall = Quiet("GCScheduler", 0, 0, Empty)
    /\ sumBytes = [t \in T |-> 0]
    /\ sumWeight = [t \in T |-> 0]
    /\ constructedAtNs = currentTimeNs
    /\ lastFullGCAtNs = -1
    /\ pc = [t \in T |-> "idle"]
    /\ nowNsRead = [t \in T |-> NotRead]
    /\ lastNsRead = [t \in T |-> NotRead]
    /\ callInvocations = [t \in T |-> 0]
    /\ gcNowNs = NotRead

Init == InitOver(Threads)

\* Every call runs to completion before the next one starts.
Next ==
    \/ (\E v \in ThresholdValues : SetThreshold(v)) /\ UNCHANGED conc
    \/ (\E v \in AllocationThresholdValues : SetAllocationThresholdBytes(v)) /\ UNCHANGED conc
    \/ (\E v \in CooldownValues : SetCooldownThresholdNs(v)) /\ UNCHANGED conc
    \/ (\E later \in TimePoints : Tick(later)) /\ UNCHANGED conc
    \/ NewThreadData /\ UNCHANGED conc
    \/ (\E t \in Threads, weight \in Weights : OnSafePointRegular(t, weight)) /\ UNCHANGED conc
    \/ (\E t \in Threads, size \in AllocSizes : OnSafePointAllocation(t, size)) /\ UNCHANGED conc
    \/ (\E t \in Threads : OnStoppedForGC(t)) /\ UNCHANGED conc
    \/ (\E bytes \in EvalBytes : GCData_OnSafePoint(bytes, 0)) /\ UNCHANGED conc
    \/ OnPerformFullGC /\ UNCHANGED conc
    \/ (\E cb \in Callbacks \cup {Empty} : GCScheduler_SetScheduleGC(cb)) /\ UNCHANGED conc
    \/ (\E cb \in Callbacks \cup {Empty} : GCData_SetScheduleGC(cb)) /\ UNCHANGED conc

Spec == Init /\ [][Next]_vars

\* The same program with its scheduling stated: the time source keeps advancing,
\* started threads keep running through safepoints, and NewThreadData is called for
\* each thread.  Nothing obliges a thread to allocate.
Fairness ==
    /\ WF_vars((\E later \in TimePoints : Tick(later)) /\ UNCHANGED conc)
    /\ WF_vars(NewThreadData /\ UNCHANGED conc)
    /\ WF_vars((\E t \in Threads, weight \in Weights : OnSafePointRegular(t, weight))
               /\ UNCHANGED conc)

SpecLive == Init /\ [][Next]_vars /\ Fairness

\* ------------------------------------------------ interleaved specification
\* The calls of the application threads and of the GC thread, statement by statement.
\* A thread's own counters are touched by that thread only; the config fields and
\* timeOfLastGcNs_ are atomics, each access one step.

\* OnSafePointAllocation(size) up to its return or its call of OnSafePointSlowPath().
OnSafePointAllocation_Begin(t, size) ==
    /\ ~aborted
    /\ t \in created
    /\ pc[t] = "idle"
    /\ Followed(allocatedBytes[t] + size, allocatedBytesThreshold[t])
    /\ allocatedBytes' = [allocatedBytes EXCEPT ![t] = @ + size]
    /\ sumBytes' = [sumBytes EXCEPT ![t] = @ + size]
    /\ pc' = [pc EXCEPT ![t] = IF allocatedBytes[t] + size < allocatedBytesThreshold[t]
                                THEN "idle" ELSE "OnSafePoint"]
    /\ lastCall' = Quiet("OnSafePointAllocation", t, size, Empty)
    /\ UNCHANGED <<gcAggressive, config, created, allocatedBytesThreshold, safePointsCounter,
                   safePointsCounterThreshold, currentTimeNs, gcData, GCScheduler_scheduleGC,
                   aborted, sumWeight, constructedAtNs, lastFullGCAtNs,
                   nowNsRead, lastNsRead, callInvocations, gcNowNs>>

\* OnSafePointRegular(weight) up to its return or its call of OnSafePointSlowPath().
OnSafePointRegular_Begin(t, weight) ==
    /\ ~aborted
    /\ t \in created
    /\ pc[t] = "idle"
    /\ gcAggressive => Followed(safePointsCounter[t] + weight, safePointsCounterThreshold[t])
    /\ IF gcAggressive
       THEN /\ safePointsCounter' = [safePointsCounter EXCEPT ![t] = @ + weight]
            /\ sumWeight' = [sumWeight EXCEPT ![t] = @ + weight]
            /\ pc' = [pc EXCEPT ![t] =
                          IF safePointsCounter[t] + weight < safePointsCounterThreshold[t]
                          THEN "idle" ELSE "OnSafePoint"]
       ELSE UNCHANGED <<safePointsCounter, sumWeight, pc>>
    /\ lastCall' = Quiet("OnSafePointRegular", t, weight, Empty)
    /\ UNCHANGED <<gcAggressive, config, created, allocatedBytes, allocatedBytesThreshold,
                   safePointsCounterThreshold, currentTimeNs, gcData, GCScheduler_scheduleGC,
                   aborted, sumBytes, constructedAtNs, lastFullGCAtNs,
                   nowNsRead, lastNsRead, callInvocations, gcNowNs>>

\* GCData::OnSafePoint, left operand of ||: allocatedBytes > config_.allocationThresholdBytes.
OnSafePoint_CompareBytes(t) ==
    /\ ~aborted
    /\ pc[t] = "OnSafePoint"
    /\ pc' = [pc EXCEPT ![t] = IF allocatedBytes[t] > allocationThresholdBytes
                                THEN "scheduleGC" ELSE "elapsed"]
    /\ lastCall' = Quiet("GCData::OnSafePoint", t, 0, Empty)
    /\ UNCHANGED <<gcAggressive, config, created, threadData, currentTimeNs, gcData,
                   GCScheduler_scheduleGC, aborted, ghost,
                   nowNsRead, lastNsRead, callInvocations, gcNowNs>>

\* GCData::OnSafePoint, the call currentTimeCallbackNs_() of the subtraction.  The two
\* operands of - are not sequenced with respect to each other.
OnSafePoint_ReadClock(t) ==
    /\ ~aborted
    /\ pc[t] = "elapsed"
    /\ nowNsRead[t] = NotRead
    /\ nowNsRead' = [nowNsRead EXCEPT ![t] = currentTimeNs]
    /\ lastCall' = Quiet("GCData::OnSafePoint", t, 0, Empty)
    /\ UNCHANGED <<gcAggressive, config, created, threadData, currentTimeNs, gcData,
                   GCScheduler_scheduleGC, aborted, ghost,
                   pc, lastNsRead, callInvocations, gcNowNs>>

\* GCData::OnSafePoint, the atomic load of timeOfLastGcNs_ of the subtraction.
OnSafePoint_LoadTimestamp(t) ==
    /\ ~aborted
    /\ pc[t] = "elapsed"
    /\ lastNsRead[t] = NotRead
    /\ lastNsRead' = [lastNsRead EXCEPT ![t] = timeOfLastGcNs]
    /\ lastCall' = Quiet("GCData::OnSafePoint", t, 0, Empty)
    /\ UNCHANGED <<gcAggressive, config, created, threadData, currentTimeNs, gcData,
                   GCScheduler_scheduleGC, aborted, ghost,
                   pc, nowNsRead, callInvocations, gcNowNs>>

\* GCData::OnSafePoint, right operand of ||: the difference >= config_.cooldownThresholdNs.
OnSafePoint_CompareElapsed(t) ==
    /\ ~aborted
    /\ pc[t] = "elapsed"
    /\ nowNsRead[t] # NotRead
    /\ lastNsRead[t] # NotRead
    /\ pc' = [pc EXCEPT ![t] =
                  IF ElapsedAtLeast(nowNsRead[t], lastNsRead[t], cooldownThresholdNs)
                  THEN "scheduleGC" ELSE "clear"]
    /\ nowNsRead' = [nowNsRead EXCEPT ![t] = NotRead]
    /\ lastNsRead' = [lastNsRead EXCEPT ![t] = NotRead]
    /\ lastCall' = Quiet("GCData::OnSafePoint", t, 0, Empty)
    /\ UNCHANGED <<gcAggressive, config, created, threadData, currentTimeNs, gcData,
                   GCScheduler_scheduleGC, aborted, ghost, callInvocations, gcNowNs>>

\* The body of the if that leaves the request out when another thread's call has
\* already made one.
OnSafePoint_ScheduleGC_Coalescing(t) ==
    /\ ~aborted
    /\ pc[t] = "scheduleGC"
    /\ IF RuntimeAssertFails(GCData_scheduleGC # Empty)
       THEN /\ aborted' = TRUE
            /\ lastCall' = Call("GCData::OnSafePoint", t, 0, Empty, TRUE,
                                allocatedBytes[t], safePointsCounter[t], Empty)
            /\ UNCHANGED <<pc, callInvocations>>
       ELSE /\ UNCHANGED aborted
            /\ pc' = [pc EXCEPT ![t] = "clear"]
            /\ IF \E u \in DOMAIN pc \ {t} : callInvocations[u] > 0
               THEN /\ UNCHANGED callInvocations
                    /\ lastCall' = Call("GCData::OnSafePoint", t, 0, Empty, TRUE,
                                        allocatedBytes[t], safePointsCounter[t], Empty)
               ELSE /\ callInvocations' = [callInvocations EXCEPT ![t] = @ + 1]
                    /\ lastCall' = Call("GCData::OnSafePoint", t, 0, Empty, TRUE,
                                        allocatedBytes[t], safePointsCounter[t],
                                        GCData_scheduleGC)
    /\ UNCHANGED <<gcAggressive, config, created, threadData, currentTimeNs, gcData,
                   GCScheduler_scheduleGC, ghost, nowNsRead, lastNsRead, gcNowNs>>

\* GCData::OnSafePoint, the body of the if: RuntimeAssert, then scheduleGC_() on the
\* calling thread.
OnSafePoint_ScheduleGC(t) ==
    /\ ~aborted
    /\ pc[t] = "scheduleGC"
    /\ IF RuntimeAssertFails(GCData_scheduleGC # Empty)
       THEN /\ aborted' = TRUE
            /\ lastCall' = Call("GCData::OnSafePoint", t, 0, Empty, TRUE,
                                allocatedBytes[t], safePointsCounter[t], Empty)
            /\ UNCHANGED <<pc, callInvocations>>
       ELSE /\ UNCHANGED aborted
            /\ pc' = [pc EXCEPT ![t] = "clear"]
            /\ callInvocations' = [callInvocations EXCEPT ![t] = @ + 1]
            /\ lastCall' = Call("GCData::OnSafePoint", t, 0, Empty, TRUE,
                                allocatedBytes[t], safePointsCounter[t], GCData_scheduleGC)
    /\ UNCHANGED <<gcAggressive, config, created, threadData, currentTimeNs, gcData,
                   GCScheduler_scheduleGC, ghost, nowNsRead, lastNsRead, gcNowNs>>

\* The end of OnSafePointSlowPath that refreshes the snapshots of every thread.
OnSafePointSlowPath_Clear_AllThreads(t) ==
    /\ ~aborted
    /\ pc[t] = "clear"
    /\ allocatedBytes' = [allocatedBytes EXCEPT ![t] = 0]
    /\ safePointsCounter' = [safePointsCounter EXCEPT ![t] = 0]
    /\ allocatedBytesThreshold' =
           [u \in DOMAIN allocatedBytesThreshold |->
               IF u \in created THEN allocationThresholdBytes ELSE allocatedBytesThreshold[u]]
    /\ safePointsCounterThreshold' =
           [u \in DOMAIN safePointsCounterThreshold |->
               IF u \in created THEN threshold ELSE safePointsCounterThreshold[u]]
    /\ sumBytes' = [sumBytes EXCEPT ![t] = 0]
    /\ sumWeight' = [sumWeight EXCEPT ![t] = 0]
    /\ pc' = [pc EXCEPT ![t] = "idle"]
    /\ callInvocations' = [callInvocations EXCEPT ![t] = 0]
    /\ lastCall' = Quiet("OnSafePointSlowPath", t, 0, Empty)
    /\ UNCHANGED <<gcAggressive, config, created, currentTimeNs, gcData, GCScheduler_scheduleGC,
                   aborted, constructedAtNs, lastFullGCAtNs, nowNsRead, lastNsRead, gcNowNs>>

\* OnSafePointSlowPath after onSafePoint_ has returned: ClearCountersAndUpdateThresholds().
OnSafePointSlowPath_Clear(t) ==
    /\ ~aborted
    /\ pc[t] = "clear"
    /\ ClearCountersAndUpdateThresholds(t)
    /\ sumBytes' = [sumBytes EXCEPT ![t] = 0]
    /\ sumWeight' = [sumWeight EXCEPT ![t] = 0]
    /\ pc' = [pc EXCEPT ![t] = "idle"]
    /\ callInvocations' = [callInvocations EXCEPT ![t] = 0]
    /\ lastCall' = Quiet("OnSafePointSlowPath", t, 0, Empty)
    /\ UNCHANGED <<gcAggressive, config, created, currentTimeNs, gcData, GCScheduler_scheduleGC,
                   aborted, constructedAtNs, lastFullGCAtNs, nowNsRead, lastNsRead, gcNowNs>>

\* OnPerformFullGC on the GC thread, the call currentTimeCallbackNs_().
OnPerformFullGC_ReadClock ==
    /\ ~aborted
    /\ gcNowNs = NotRead
    /\ gcNowNs' = currentTimeNs
    /\ lastCall' = Quiet("OnPerformFullGC", 0, 0, Empty)
    /\ UNCHANGED <<gcAggressive, config, created, threadData, currentTimeNs, gcData,
                   GCScheduler_scheduleGC, aborted, ghost,
                   pc, nowNsRead, lastNsRead, callInvocations>>

\* OnPerformFullGC on the GC thread, the atomic store into timeOfLastGcNs_.
OnPerformFullGC_Store ==
    /\ ~aborted
    /\ gcNowNs # NotRead
    /\ timeOfLastGcNs' = gcNowNs
    /\ lastFullGCAtNs' = gcNowNs
    /\ gcNowNs' = NotRead
    /\ lastCall' = Quiet("OnPerformFullGC", 0, 0, Empty)
    /\ UNCHANGED <<gcAggressive, config, created, threadData, currentTimeNs, GCData_scheduleGC,
                   GCScheduler_scheduleGC, aborted, sumBytes, sumWeight, constructedAtNs,
                   pc, nowNsRead, lastNsRead, callInvocations>>

InitConc == InitOver(ConcThreads)

NextConc ==
    \/ (\E v \in AllocationThresholdValues : SetAllocationThresholdBytes(v)) /\ UNCHANGED conc
    \/ (\E later \in TimePoints : Tick(later)) /\ UNCHANGED conc
    \/ NewThreadData /\ UNCHANGED conc
    \/ (\E cb \in ConcCallbacks : GCScheduler_SetScheduleGC(cb)) /\ UNCHANGED conc
    \/ (\E t \in ConcThreads : pc[t] = "idle" /\ OnStoppedForGC(t)) /\ UNCHANGED conc
    \/ \E t \in ConcThreads, size \in ConcSizes : OnSafePointAllocation_Begin(t, size)
    \/ \E t \in ConcThreads, weight \in ConcWeights : OnSafePointRegular_Begin(t, weight)
    \/ \E t \in ConcThreads : OnSafePoint_CompareBytes(t)
    \/ \E t \in ConcThreads : OnSafePoint_ReadClock(t)
    \/ \E t \in ConcThreads : OnSafePoint_LoadTimestamp(t)
    \/ \E t \in ConcThreads : OnSafePoint_CompareElapsed(t)
    \/ \E t \in ConcThreads : OnSafePoint_ScheduleGC(t)
    \/ \E t \in ConcThreads : OnSafePointSlowPath_Clear(t)
    \/ OnPerformFullGC_ReadClock
    \/ OnPerformFullGC_Store

SpecConc == InitConc /\ [][NextConc]_vars

TypeOK ==
    /\ gcAggressive \in BOOLEAN
    /\ ConfigTypeOK
    /\ created \subseteq Threads
    /\ allocatedBytes \in [Threads -> Nat]
    /\ allocatedBytesThreshold \in [Threads -> Nat]
    /\ safePointsCounter \in [Threads -> Nat]
    /\ safePointsCounterThreshold \in [Threads -> Nat]
    /\ currentTimeNs \in TimePoints
    /\ timeOfLastGcNs \in TimePoints
    /\ GCData_scheduleGC \in Callbacks \cup {Empty}
    /\ GCScheduler_scheduleGC \in Callbacks \cup {Empty}
    /\ aborted \in BOOLEAN

\* ------------------------------------------------------------------ claims
\* The call just made, seen from the state it started in.
Reported == lastCall'.reported
Invoked == lastCall'.invoked # Empty
\* The trigger condition of Evaluate on the live Config, for the bytes just reported.
LiveCondition ==
    \/ lastCall'.bytes > allocationThresholdBytes
    \/ currentTimeNs - timeOfLastGcNs >= cooldownThresholdNs

\* C1: every Evaluate (GCData::OnSafePoint) made with a callback bound invokes that
\* callback iff the reported bytes are strictly above the live allocation-byte
\* threshold or the time since the last-collection timestamp is at least the live
\* cooldown, both read from Config at the call and not from a thread's snapshot.
C1_EvaluateUsesLiveConfig ==
    [][(Reported /\ GCData_scheduleGC # Empty) =>
           /\ Invoked <=> LiveCondition
           /\ Invoked => lastCall'.invoked = GCData_scheduleGC
           /\ ~aborted']_vars

\* A thread whose byte snapshot was the aggressive default reported exactly that many
\* bytes after Config's byte threshold had been lowered, inside the cooldown: the
\* callback was invoked because of the lowered, live value.
C1_Witness ==
    /\ lastCall.op = "OnSafePointAllocation"
    /\ lastCall.reported
    /\ lastCall.invoked # Empty
    /\ lastCall.bytes = AggressiveAllocationThresholdBytes
    /\ lastCall.arg = AggressiveAllocationThresholdBytes
    /\ allocationThresholdBytes = SmallValue
    /\ currentTimeNs - timeOfLastGcNs < cooldownThresholdNs

\* C2: in either mode, a call OnSafePointAllocation(size) reports exactly when the
\* bytes passed in since the thread's last reset, this size included, are at least
\* the thread's snapshotted byte threshold; it reports once, with that sum.
C2_AllocationReportsAtSnapshot ==
    [][lastCall'.op = "OnSafePointAllocation" =>
           LET t == lastCall'.thread
               total == sumBytes[t] + lastCall'.arg
           IN  /\ Reported <=> total >= allocatedBytesThreshold[t]
               /\ Reported => lastCall'.bytes = total]_vars

\* An allocation brought the sum exactly to the snapshot, after earlier allocations
\* that stayed below it, and reported.
C2_Witness ==
    /\ lastCall.op = "OnSafePointAllocation"
    /\ lastCall.reported
    /\ lastCall.bytes = SmallValue
    /\ lastCall.arg < lastCall.bytes
    /\ ~aborted

\* C3: under compiler::gcAggressive(), a call OnSafePointRegular(weight) reports
\* exactly when the weight passed in since the thread's last reset, this weight
\* included, is at least the thread's snapshotted weight threshold; it reports once,
\* and safePointsCounter_ is zero when the call returns.
C3_SafepointReportsAtSnapshot ==
    [][(lastCall'.op = "OnSafePointRegular" /\ gcAggressive) =>
           LET t == lastCall'.thread
               total == sumWeight[t] + lastCall'.arg
           IN  /\ Reported <=> total >= safePointsCounterThreshold[t]
               /\ Reported => lastCall'.count = total
               /\ (Reported /\ ~aborted') => safePointsCounter'[t] = 0]_vars

\* A safepoint took the weight to the aggressive threshold or past it, after earlier
\* safepoints that stayed below it; the call reported and returned.
C3_Witness ==
    /\ gcAggressive
    /\ lastCall.op = "OnSafePointRegular"
    /\ lastCall.reported
    /\ lastCall.count >= AggressiveThreshold
    /\ lastCall.arg < lastCall.count
    /\ safePointsCounter[lastCall.thread] = 0
    /\ ~aborted

\* C4: without compiler::gcAggressive(), OnSafePointRegular(weight) never reports,
\* invokes nothing and leaves the thread's counters and threshold snapshots as they
\* were, also when the weight threshold (live and snapshotted) is 0.
C4_SafepointIgnoredWhenNotAggressive ==
    [][(lastCall'.op = "OnSafePointRegular" /\ ~gcAggressive) =>
           /\ ~Reported
           /\ ~Invoked
           /\ ~aborted'
           /\ UNCHANGED threadData]_vars

\* A safepoint was recorded in the normal build by a thread whose weight snapshot is 0
\* and which has bytes counted.
C4_Witness ==
    /\ ~gcAggressive
    /\ lastCall.op = "OnSafePointRegular"
    /\ threshold = 0
    /\ safePointsCounterThreshold[lastCall.thread] = 0
    /\ allocatedBytes[lastCall.thread] > 0

\* C5: OnStoppedForGC, whatever the counters are, zeroes both counters, sets both
\* snapshots to the Config values of that moment, reports nothing and invokes nothing.
C5_StoppedForGCResets ==
    [][lastCall'.op = "OnStoppedForGC" =>
           LET t == lastCall'.thread
           IN  /\ allocatedBytes'[t] = 0
               /\ safePointsCounter'[t] = 0
               /\ allocatedBytesThreshold'[t] = allocationThresholdBytes
               /\ safePointsCounterThreshold'[t] = threshold
               /\ UNCHANGED config
               /\ ~Reported
               /\ ~Invoked
               /\ ~aborted']_vars

\* OnStoppedForGC has run after both thresholds of Config had been rewritten: the
\* snapshots hold the rewritten values.
C5_Witness ==
    /\ lastCall.op = "OnStoppedForGC"
    /\ allocationThresholdBytes = SmallValue
    /\ threshold = 0
    /\ allocatedBytesThreshold[lastCall.thread] = SmallValue
    /\ safePointsCounterThreshold[lastCall.thread] = 0
    /\ allocatedBytes[lastCall.thread] = 0
    /\ safePointsCounter[lastCall.thread] = 0

\* C6: once OnPerformFullGC has run at time t, an Evaluate with a callback bound, a
\* positive live cooldown and bytes not above the live byte threshold invokes the
\* callback iff the time is at least t + cooldown.
C6_CooldownRestartsAtFullGC ==
    [][(/\ Reported
        /\ lastFullGCAtNs >= 0
        /\ GCData_scheduleGC # Empty
        /\ cooldownThresholdNs > 0
        /\ lastCall'.bytes <= allocationThresholdBytes) =>
           (Invoked <=> currentTimeNs >= lastFullGCAtNs + cooldownThresholdNs)]_vars

\* An Evaluate made more than a cooldown after construction, but less than a cooldown
\* after a collection completed, did not invoke the bound callback.
C6_Witness ==
    /\ lastCall.reported
    /\ lastCall.invoked = Empty
    /\ GCData_scheduleGC # Empty
    /\ cooldownThresholdNs > 0
    /\ lastFullGCAtNs > constructedAtNs
    /\ currentTimeNs - constructedAtNs >= cooldownThresholdNs
    /\ currentTimeNs < lastFullGCAtNs + cooldownThresholdNs
    /\ ~aborted

\* C7: before any OnPerformFullGC, an Evaluate with a callback bound and bytes not
\* above the live byte threshold invokes the callback iff at least the live cooldown
\* has passed since the time source's value at construction.
C7_CooldownStartsAtConstruction ==
    [][(/\ Reported
        /\ lastFullGCAtNs = -1
        /\ GCData_scheduleGC # Empty
        /\ lastCall'.bytes <= allocationThresholdBytes) =>
           (Invoked <=> currentTimeNs - constructedAtNs >= cooldownThresholdNs)]_vars

\* Scenario C: with the default 200 ms cooldown and no collection yet, an Evaluate with
\* zero bytes a cooldown after construction invoked the callback.
C7_Witness ==
    /\ lastCall.op = "GCData::OnSafePoint"
    /\ lastCall.bytes = 0
    /\ lastCall.invoked # Empty
    /\ lastFullGCAtNs = -1
    /\ constructedAtNs > 0
    /\ cooldownThresholdNs = DefaultCooldownThresholdNs
    /\ currentTimeNs - constructedAtNs >= DefaultCooldownThresholdNs

\* C8: GCScheduler::SetScheduleGC succeeds, binding the callback in the scheduler and
\* in its GCData, only when the callback is non-empty and the scheduler has none yet;
\* every other call is fatal.  The scheduler's callback, once set, never changes, and
\* apart from a direct gcData().SetScheduleGC no call changes GCData's callback.
C8_SchedulerBindsOnce ==
    [][/\ lastCall'.op = "GCScheduler::SetScheduleGC" =>
              IF lastCall'.cb # Empty /\ GCScheduler_scheduleGC = Empty
              THEN /\ ~aborted'
                   /\ GCScheduler_scheduleGC' = lastCall'.cb
                   /\ GCData_scheduleGC' = lastCall'.cb
              ELSE /\ aborted'
                   /\ UNCHANGED <<GCScheduler_scheduleGC, GCData_scheduleGC>>
       /\ GCScheduler_scheduleGC # Empty => UNCHANGED GCScheduler_scheduleGC
       /\ lastCall'.op \notin {"GCScheduler::SetScheduleGC", "GCData::SetScheduleGC"} =>
              UNCHANGED <<GCScheduler_scheduleGC, GCData_scheduleGC>>]_vars

\* A second GCScheduler::SetScheduleGC, with another non-empty callback, was fatal and
\* left the first binding in place.
C8_Witness ==
    /\ lastCall.op = "GCScheduler::SetScheduleGC"
    /\ lastCall.cb \notin {Empty, GCScheduler_scheduleGC}
    /\ GCScheduler_scheduleGC # Empty
    /\ GCData_scheduleGC = GCScheduler_scheduleGC
    /\ aborted

\* C9: a call of GCData::SetScheduleGC with an empty callback, or when GCData already
\* has a callback, is fatal, so GCData's callback is bound at most once.
C9_GCDataBindsOnce ==
    [][(/\ lastCall'.op = "GCData::SetScheduleGC"
        /\ (lastCall'.cb = Empty \/ GCData_scheduleGC # Empty)) =>
           /\ aborted'
           /\ UNCHANGED GCData_scheduleGC]_vars

\* C10: an Evaluate made while GCData has no callback is fatal exactly when the
\* trigger condition holds on the live Config; otherwise it invokes nothing, returns,
\* and a direct call leaves everything as it was.
C10_UnboundEvaluateIsFatalIffDue ==
    [][(Reported /\ GCData_scheduleGC = Empty) =>
           /\ aborted' <=> LiveCondition
           /\ ~Invoked
           /\ (lastCall'.op = "GCData::OnSafePoint" /\ ~LiveCondition) =>
                  UNCHANGED <<gcAggressive, config, created, threadData, currentTimeNs, gcData,
                              GCScheduler_scheduleGC, aborted, ghost>>]_vars

\* A thread's report reached Evaluate before any callback was bound, with the trigger
\* condition met: the process was terminated, the counters still hold the report.
C10_Witness ==
    /\ aborted
    /\ lastCall.op \in {"OnSafePointAllocation", "OnSafePointRegular"}
    /\ lastCall.reported
    /\ GCData_scheduleGC = Empty
    /\ allocatedBytes[lastCall.thread] = lastCall.bytes
    /\ safePointsCounter[lastCall.thread] = lastCall.count

\* C13: a thread's two snapshots change only at that thread's resets (its
\* construction, a report of its own that returns, its OnStoppedForGC), where they
\* become the Config values of that moment; a store into Config changes no thread's
\* counters or snapshots.
ResetOf(t) ==
    /\ lastCall'.thread = t
    /\ \/ lastCall'.op \in {"NewThreadData", "OnStoppedForGC"}
       \/ lastCall'.reported /\ ~aborted'
C13_SnapshotsAreConfigAtLastReset ==
    [][/\ \A t \in DOMAIN allocatedBytesThreshold :
              IF ResetOf(t)
              THEN /\ allocatedBytesThreshold'[t] = allocationThresholdBytes
                   /\ safePointsCounterThreshold'[t] = threshold
              ELSE /\ allocatedBytesThreshold'[t] = allocatedBytesThreshold[t]
                   /\ safePointsCounterThreshold'[t] = safePointsCounterThreshold[t]
       /\ config' # config => UNCHANGED threadData]_vars

\* Config's byte threshold and weight threshold were both rewritten after the thread's
\* last reset: the thread still holds the values of that reset, and bytes counted
\* against them.
C13_Witness ==
    /\ 1 \in created
    /\ lastCall.op \in {"SetThreshold", "SetAllocationThresholdBytes"}
    /\ allocatedBytesThreshold[1] # allocationThresholdBytes
    /\ safePointsCounterThreshold[1] # threshold
    /\ allocatedBytes[1] > 0

\* C14: a report carries the thread's two counters as they stand after the crossing
\* increment, which are the sizes and weights recorded since its last reset; when
\* Evaluate returns, both counters are zeroed and both snapshots refreshed, whichever
\* counter crossed; when Evaluate does not return, nothing has been reset.
C14_ReportThenReset ==
    [][(Reported /\ lastCall'.thread \in created) =>
           LET t == lastCall'.thread
               size == IF lastCall'.op = "OnSafePointAllocation" THEN lastCall'.arg ELSE 0
               weight == IF lastCall'.op = "OnSafePointRegular" THEN lastCall'.arg ELSE 0
           IN  /\ lastCall'.bytes = sumBytes[t] + size
               /\ lastCall'.count = sumWeight[t] + weight
               /\ ~aborted' =>
                      /\ allocatedBytes'[t] = 0
                      /\ safePointsCounter'[t] = 0
                      /\ allocatedBytesThreshold'[t] = allocationThresholdBytes
                      /\ safePointsCounterThreshold'[t] = threshold
               /\ aborted' =>
                      /\ allocatedBytes'[t] = lastCall'.bytes
                      /\ safePointsCounter'[t] = lastCall'.count
                      /\ allocatedBytesThreshold'[t] = allocatedBytesThreshold[t]
                      /\ safePointsCounterThreshold'[t] = safePointsCounterThreshold[t]]_vars

\* A safepoint crossed the weight threshold while bytes had been counted too: the
\* report carried both, and both counters are zero afterwards.
C14_Witness ==
    /\ lastCall.op = "OnSafePointRegular"
    /\ lastCall.reported
    /\ lastCall.bytes > 0
    /\ lastCall.count > 0
    /\ allocatedBytes[lastCall.thread] = 0
    /\ safePointsCounter[lastCall.thread] = 0
    /\ ~aborted

\* C15: timeOfLastGcNs_ never decreases (the time source being monotonic), and no call
\* other than OnPerformFullGC changes it.
C15_TimestampMonotonic ==
    [][/\ timeOfLastGcNs' >= timeOfLastGcNs
       /\ timeOfLastGcNs' # timeOfLastGcNs => lastCall'.op = "OnPerformFullGC"]_vars

\* After a collection completed later than construction, an Evaluate invoked the
\* callback and the timestamp is still that of the collection.
C15_Witness ==
    /\ lastCall.reported
    /\ lastCall.invoked # Empty
    /\ lastFullGCAtNs > constructedAtNs
    /\ timeOfLastGcNs = lastFullGCAtNs
    /\ currentTimeNs > timeOfLastGcNs

\* C17: whenever no call is in progress, each counter of each thread is zero or below
\* its own snapshot, and without compiler::gcAggressive() safePointsCounter_ is zero.
C17_CountersBelowSnapshots ==
    ~aborted =>
        \A t \in created :
            /\ allocatedBytes[t] = 0 \/ allocatedBytes[t] < allocatedBytesThreshold[t]
            /\ safePointsCounter[t] = 0 \/ safePointsCounter[t] < safePointsCounterThreshold[t]
            /\ ~gcAggressive => safePointsCounter[t] = 0

\* Both counters of a thread are positive and one below its snapshot.
C17_Witness ==
    /\ ~aborted
    /\ 1 \in created
    /\ allocatedBytes[1] = allocatedBytesThreshold[1] - 1
    /\ allocatedBytes[1] > 0
    /\ safePointsCounter[1] > 0

\* C19: when a thread whose byte snapshot equals the live byte threshold reports from
\* OnSafePointAllocation inside the cooldown, a callback is invoked iff the reported
\* bytes are strictly above the threshold; a report of exactly the threshold returns,
\* zeroes the counters and requests nothing.
C19_ExactThresholdRequestsNothing ==
    [][(/\ lastCall'.op = "OnSafePointAllocation"
        /\ Reported
        /\ allocatedBytesThreshold[lastCall'.thread] = allocationThresholdBytes
        /\ GCData_scheduleGC # Empty
        /\ currentTimeNs - timeOfLastGcNs < cooldownThresholdNs) =>
           /\ Invoked <=> lastCall'.bytes > allocationThresholdBytes
           /\ lastCall'.bytes = allocationThresholdBytes =>
                  /\ ~aborted'
                  /\ allocatedBytes'[lastCall'.thread] = 0
                  /\ safePointsCounter'[lastCall'.thread] = 0]_vars

\* Allocations brought a thread exactly to the default 10 MiB threshold inside the
\* cooldown, with a callback bound: the counters were zeroed and nothing was requested.
C19_Witness ==
    /\ lastCall.op = "OnSafePointAllocation"
    /\ lastCall.reported
    /\ lastCall.bytes = DefaultAllocationThresholdBytes
    /\ allocationThresholdBytes = DefaultAllocationThresholdBytes
    /\ lastCall.invoked = Empty
    /\ GCData_scheduleGC # Empty
    /\ currentTimeNs - timeOfLastGcNs < cooldownThresholdNs
    /\ allocatedBytes[lastCall.thread] = 0
    /\ ~aborted

\* C20: under compiler::gcAggressive(), with Config as its constructor left it, every
\* report invokes the bound callback, whatever bytes it carries, and is fatal when no
\* callback is bound.
C20_AggressiveReportsAlwaysRequest ==
    [][(/\ Reported
        /\ gcAggressive
        /\ threshold = AggressiveThreshold
        /\ allocationThresholdBytes = AggressiveAllocationThresholdBytes
        /\ cooldownThresholdNs = AggressiveCooldownThresholdNs) =>
           IF GCData_scheduleGC # Empty
           THEN lastCall'.invoked = GCData_scheduleGC /\ ~aborted'
           ELSE ~Invoked /\ aborted']_vars

\* In the aggressive profile a safepoint report carrying fewer bytes than the byte
\* threshold, made at the very time of the last collection, invoked the callback.
C20_Witness ==
    /\ gcAggressive
    /\ cooldownThresholdNs = AggressiveCooldownThresholdNs
    /\ allocationThresholdBytes = AggressiveAllocationThresholdBytes
    /\ threshold = AggressiveThreshold
    /\ lastCall.op = "OnSafePointRegular"
    /\ lastCall.reported
    /\ lastCall.bytes < AggressiveAllocationThresholdBytes
    /\ lastCall.invoked # Empty
    /\ lastFullGCAtNs = currentTimeNs

\* C12: with a callback bound, whenever the live cooldown has passed since the last
\* completed collection, a collection request is eventually issued (unless a collection
\* completes, the callback is unbound or the process is terminated first), also when
\* every thread's allocated bytes stay below its byte threshold.
CooldownElapsedWhileBound ==
    /\ ~aborted
    /\ GCData_scheduleGC # Empty
    /\ currentTimeNs - timeOfLastGcNs >= cooldownThresholdNs
C12_PeriodicRequest ==
    CooldownElapsedWhileBound ~> (~CooldownElapsedWhileBound \/ lastCall.invoked # Empty)

\* C11: no coalescing.  In every interleaving of the threads' OnSafePoint calls, a
\* call whose condition held (on the values it read) invokes the bound callback
\* exactly once, on the calling thread, whatever the other threads' calls have done;
\* a call whose condition did not hold invokes nothing; no call invokes it twice.
C11_NoCoalescing ==
    [][\A t \in DOMAIN pc :
          /\ callInvocations'[t] <= 1
          /\ (pc[t] = "OnSafePoint" /\ pc'[t] # pc[t]) =>
                 (pc'[t] = "scheduleGC" <=> allocatedBytes[t] > allocationThresholdBytes)
          /\ (pc[t] = "elapsed" /\ pc'[t] # pc[t]) =>
                 /\ pc'[t] = "scheduleGC" <=>
                        ElapsedAtLeast(nowNsRead[t], lastNsRead[t], cooldownThresholdNs)
                 /\ callInvocations'[t] = 0
          /\ (pc[t] = "scheduleGC" /\ pc'[t] # pc[t]) =>
                 /\ callInvocations[t] = 0
                 /\ callInvocations'[t] = 1
                 /\ lastCall'.thread = t
                 /\ lastCall'.invoked # Empty
                 /\ lastCall'.invoked = GCData_scheduleGC
          /\ callInvocations'[t] > callInvocations[t] => pc[t] = "scheduleGC"]_vars
\* Both threads are inside OnSafePoint calls whose condition held, each has invoked
\* the callback once, and no collection has completed.
C11_Witness ==
    /\ \A t \in ConcThreads : pc[t] = "clear" /\ callInvocations[t] = 1
    /\ lastFullGCAtNs = -1
    /\ gcNowNs = NotRead

\* C16: a step changes the counters or the threshold snapshots of a thread only if
\* it is that thread's own NewThreadData, OnSafePointAllocation, OnSafePointRegular,
\* OnStoppedForGC or slow path; steps of other threads, callback invocations and
\* OnPerformFullGC leave them alone, in every interleaving.
ThreadDataOf(t) ==
    <<allocatedBytes[t], allocatedBytesThreshold[t], safePointsCounter[t],
      safePointsCounterThreshold[t]>>
C16_ThreadsIndependent ==
    [][\A u \in DOMAIN pc :
          ThreadDataOf(u)' # ThreadDataOf(u) =>
              /\ lastCall'.thread = u
              /\ lastCall'.op \in {"NewThreadData", "OnSafePointAllocation", "OnSafePointRegular",
                                   "OnStoppedForGC", "OnSafePointSlowPath"}]_vars
\* Thread 1 has just finished a slow path, which refreshed its snapshot; thread 2
\* still has its bytes counted and its older snapshot.
C16_Witness ==
    /\ lastCall.op = "OnSafePointSlowPath"
    /\ lastCall.thread = 1
    /\ 2 \in created
    /\ allocatedBytes[2] > 0
    /\ allocatedBytesThreshold[2] # allocatedBytesThreshold[1]

\* C18: in every interleaving with OnPerformFullGC, once an OnSafePoint call has read
\* both the clock and timeOfLastGcNs_, the clock value is not below the timestamp, so
\* the unsigned difference does not wrap.
C18_ElapsedNeverWraps ==
    \A t \in DOMAIN pc :
        (nowNsRead[t] # NotRead /\ lastNsRead[t] # NotRead) => nowNsRead[t] >= lastNsRead[t]

====
